---- MODULE Spec2Model ----
(***************************************************************************)
(* Model of src/src/minizinc/solver.py: the Solver configuration object,   *)
(* its identity (_id), the attribute-write interception (__setattr__), the *)
(* scoped materialisation of the configuration as a temporary file         *)
(* (configuration()), serialisation (to_json) and solve forwarding.        *)
(***************************************************************************)
EXTENDS Integers, Sequences, FiniteSets, TLC

\* ---------------------------------------------------------------- bounds
\* number of attribute assignments made by the callers in one behaviour
MaxAssign == 1
\* nesting depth of active configuration() scopes per thread
MaxDepth == 2
\* number of distinct temporary file names the file system can hand out
MaxFiles == 2
\* number of files of failed calls that may be waiting for their finalizer
MaxOrphans == 1
\* length of the version strings given to the constructor
MaxVersionLen == 7

\* ---------------------------------------------------------------- values
\* Python's None, as the value of _id and of the local variable `file`
None == <<>>

\* the threads that may call into the object; Spec runs "main" only
Threads == {"main", "other"}

\* keys listed in __setattr__ (solver.py:109-110)
ConfigKeys ==
    {"version", "executable", "mznlib", "tags", "stdFlags", "extraFlags",
     "supportsMzn", "supportsFzn", "needsSolns2Out", "needsMznExecutable",
     "needsStdlibDir", "isGUIApplication"}

\* the attributes of the object other than _id
FieldKeys == ConfigKeys \cup {"name", "driver"}

\* every attribute a caller can assign
AllKeys == FieldKeys \cup {"_id"}

BoolKeys ==
    {"supportsMzn", "supportsFzn", "needsSolns2Out", "needsMznExecutable",
     "needsStdlibDir", "isGUIApplication"}

\* names are sequences of characters, so that lower() has something to do
Names == {<<"F", "o", "o">>, <<"g", "e">>}

\* identities registered with a driver from outside this class
RegisteredIds == {<<"org.gecode.gecode">>}

\* the driver collaborator: absent, or some driver object
NoDriver == "None"
Drivers == {NoDriver, "driver"}

\* the values a caller may assign to each attribute
Values(key) ==
    CASE key = "version"    -> {<<1, 2, 3>>, <<2, 0, 0>>, <<1, 2>>}
      [] key = "executable" -> {"/bin/foo", "/bin/bar"}
      [] key = "mznlib"     -> {"", "/lib"}
      [] key = "tags"       -> {<<>>, <<"cp">>}
      [] key = "stdFlags"   -> {<<>>, <<"-a">>}
      [] key = "extraFlags" -> {<<>>, <<"-x">>}
      [] key \in BoolKeys   -> BOOLEAN
      [] key = "name"       -> Names
      [] key = "driver"     -> Drivers
      [] key = "_id"        -> {None} \cup RegisteredIds

\* values that are singleton objects in Python (True, False, None): for
\* them `a is b` and `a == b` coincide
Singleton(key, value) ==
    \/ key \in BoolKeys
    \/ key = "_id" /\ value = None
    \/ key = "driver" /\ value = NoDriver

\* ------------------------------------------------------------ file names
\* tempfile.NamedTemporaryFile(prefix="minizinc_solver_", suffix=".msc")
Path(i) == <<"minizinc_solver_", ToString(i), ".msc">>
Paths == {Path(i) : i \in 1..MaxFiles}

\* a name that holds no file
NoFile == [exists |-> FALSE, doc |-> <<>>, complete |-> FALSE]

\* a file whose writer gave up: it exists, with an unspecified part of the
\* document in it
Partial == [exists |-> TRUE, doc |-> <<>>, complete |-> FALSE]

\* ------------------------------------------------------------- the state
VARIABLES
    fields,   \* attribute name -> stored value (all attributes but _id)
    _id,      \* Solver._id: None or an identity
    fs,       \* file system: path -> file (or NoFile)
    stack,    \* thread -> sequence of active configuration() frames
    nassign,  \* number of assignments made so far
    last      \* what the most recent operation did and returned

vars == <<fields, _id, fs, stack, nassign, last>>

\* --------------------------------------------------------------- Solver.id
LowerChar(c) ==
    CASE c = "F" -> "f"
      [] c = "G" -> "g"
      [] c = "O" -> "o"
      [] c = "E" -> "e"
      [] OTHER   -> c

Lower(s) == [i \in 1..Len(s) |-> LowerChar(s[i])]

DerivedId(name) == <<"org.minizinc.python.">> \o Lower(name)

\* variant of IdOf: the derived form is built from the name as written,
\* without lower()
IdOfNoLower(ident, name) ==
    IF ident = None THEN <<"org.minizinc.python.">> \o name ELSE ident

\* the property `id` evaluated on given attribute values
IdOf(ident, name) == IF ident = None THEN DerivedId(name) ELSE ident

\* the property `id` in the current state
Id == IdOf(_id, fields["name"])

\* ------------------------------------------------------------ to_json
RECURSIVE Join(_, _)
Join(sep, parts) ==
    IF parts = <<>> THEN <<>>
    ELSE IF Len(parts) = 1 THEN <<Head(parts)>>
    ELSE <<Head(parts), sep>> \o Join(sep, Tail(parts))

\* ".".join([str(i) for i in version])
FormatVersion(v) == Join(".", [i \in 1..Len(v) |-> ToString(v[i])])

\* variant of Info: the "id" entry is the attribute _id itself instead of the
\* property id
InfoRawId(f, ident) ==
    [k \in ConfigKeys \cup {"name", "id"} |->
        CASE k = "version" -> FormatVersion(f["version"])
          [] k = "id"      -> ident
          [] OTHER         -> f[k]]

\* the dictionary `info` of to_json
Info(f, ident) ==
    [k \in ConfigKeys \cup {"name", "id"} |->
        CASE k = "version" -> FormatVersion(f["version"])
          [] k = "id"      -> IdOf(ident, f["name"])
          [] OTHER         -> f[k]]

\* the keys of `info` in the order sort_keys=True writes them
SortedKeys ==
    <<"executable", "extraFlags", "id", "isGUIApplication", "mznlib", "name",
      "needsMznExecutable", "needsSolns2Out", "needsStdlibDir", "stdFlags",
      "supportsFzn", "supportsMzn", "tags", "version">>

\* json.dumps(info, sort_keys=True, indent=4): the document as the sequence
\* of its (key, value) members
Dumps(info) == [i \in 1..Len(SortedKeys) |-> <<SortedKeys[i], info[SortedKeys[i]]>>]

ToJsonOf(f, ident) == Dumps(Info(f, ident))

ToJson == ToJsonOf(fields, _id)

\* the value stored under a key of a document (None when the key is absent)
DocGet(doc, key) ==
    IF \E i \in 1..Len(doc) : doc[i][1] = key
    THEN doc[CHOOSE i \in 1..Len(doc) : doc[i][1] = key][2]
    ELSE None

\* ------------------------------------------------------ observation record
\* `last` describes the most recent operation: which one, by which thread,
\* on which key, what _id was before it, what it returned or raised, which
\* file it created or removed, and which calls it made on the driver.
NoArgs == [instance |-> "", args |-> <<>>, kwargs |-> <<>>]

Obs(op, t) ==
    [op |-> op, t |-> t, key |-> "", differs |-> FALSE, same |-> FALSE,
     prev |-> _id, out |-> None, err |-> "", file |-> None,
     clean |-> FALSE, given |-> NoArgs, calls |-> <<>>, res |-> "",
     doc |-> <<>>, text |-> <<>>]

\* ------------------------------------------------------------ __init__
\* the characters \d matches, and int() of one of them
Digits == {"0", "1", "2", "3", "4", "5", "6", "7", "8", "9"}

DigitVal(c) ==
    CASE c = "0" -> 0 [] c = "1" -> 1 [] c = "2" -> 2 [] c = "3" -> 3
      [] c = "4" -> 4 [] c = "5" -> 5 [] c = "6" -> 6 [] c = "7" -> 7
      [] c = "8" -> 8 [] c = "9" -> 9

\* int(i) of a string of digits (solver.py:38)
RECURSIVE IntOf(_)
IntOf(ds) ==
    IF ds = <<>> THEN 0
    ELSE 10 * IntOf(SubSeq(ds, 1, Len(ds) - 1)) + DigitVal(ds[Len(ds)])

\* \d+ is greedy: the position after the longest run of digits that starts
\* at position i of s (i itself when s[i] is no digit)
RECURSIVE RunEnd(_, _)
RunEnd(s, i) ==
    IF i <= Len(s) /\ s[i] \in Digits THEN RunEnd(s, i + 1) ELSE i

\* re.search found nothing: the match object is None
NoMatch == <<>>

\* the groups of a match of (\d+)\.(\d+)\.(\d+) that starts at position i
\* of s, or NoMatch.  A run of digits shorter than the longest one is
\* followed by a digit, never by the dot, so backtracking finds nothing the
\* longest runs do not find.
MatchAt(s, i) ==
    LET e1 == RunEnd(s, i)
        e2 == RunEnd(s, e1 + 1)
        e3 == RunEnd(s, e2 + 1)
    IN  IF /\ e1 > i
           /\ e1 <= Len(s)
           /\ s[e1] = "."
           /\ e2 > e1 + 1
           /\ e2 <= Len(s)
           /\ s[e2] = "."
           /\ e3 > e2 + 1
        THEN <<SubSeq(s, i, e1 - 1), SubSeq(s, e1 + 1, e2 - 1),
               SubSeq(s, e2 + 1, e3 - 1)>>
        ELSE NoMatch

\* the scan of re.search: the match at the leftmost position that has one
RECURSIVE SearchFrom(_, _)
SearchFrom(s, i) ==
    IF i > Len(s) THEN NoMatch
    ELSE IF MatchAt(s, i) # NoMatch THEN MatchAt(s, i)
    ELSE SearchFrom(s, i + 1)

\* variant of Search: re.match, which looks at the start of the string only
SearchAtStart(s) == IF s = <<>> THEN NoMatch ELSE MatchAt(s, 1)

\* re.search(r"(\d+)\.(\d+)\.(\d+)", version) (solver.py:37): match.groups()
\* or NoMatch
Search(s) == SearchFrom(s, 1)

\* tuple([int(i) for i in match.groups()]) (solver.py:38)
ParseVersion(groups) == [i \in 1..Len(groups) |-> IntOf(groups[i])]

\* the attributes of a constructed object (solver.py:32-51)
Built(name, groups, executable, driver) ==
    [k \in FieldKeys |->
        CASE k = "name"        -> name
          [] k = "driver"      -> driver
          [] k = "version"     -> ParseVersion(groups)
          [] k = "executable"  -> executable
          [] k = "mznlib"      -> ""
          [] k \in {"tags", "stdFlags", "extraFlags"} -> <<>>
          [] k = "supportsFzn" -> TRUE
          [] OTHER             -> FALSE]

\* the observation of a freshly constructed object
Fresh ==
    [op |-> "init", t |-> "main", key |-> "", differs |-> FALSE,
     same |-> FALSE, prev |-> None, out |-> None, err |-> "",
     file |-> None, clean |-> FALSE, given |-> NoArgs,
     calls |-> <<>>, res |-> "", doc |-> <<>>, text |-> <<>>]

\* Solver("Foo", "1.2.3", "/bin/foo", driver)
Init ==
    /\ \E d \in Drivers :
         fields = Built(<<"F", "o", "o">>, Search(<<"1", ".", "2", ".", "3">>),
                        "/bin/foo", d)
    /\ _id = None
    /\ fs = [p \in Paths |-> NoFile]
    /\ stack = [t \in Threads |-> <<>>]
    /\ nassign = 0
    /\ last = Fresh

\* ------------------------------------------------------------ frames
\* the frame of the innermost active configuration() call of thread t
Top(t) == stack[t][Len(stack[t])]

\* thread t is running caller code: outside every scope, or in the body of
\* its innermost scope
InCaller(t) == IF stack[t] = <<>> THEN TRUE ELSE Top(t).pc = "body"

\* thread t's innermost configuration() call is at program point pc
At(t, pc) == stack[t] # <<>> /\ Top(t).pc = pc

SetTop(t, frame) == [stack EXCEPT ![t] = [@ EXCEPT ![Len(@)] = frame]]

Pop(t) == [stack EXCEPT ![t] = SubSeq(@, 1, Len(@) - 1)]

\* ------------------------------------------------------------ __setattr__
\* the attribute's current value: getattr(self, key, None)
Stored(key) == IF key = "_id" THEN _id ELSE fields[key]

\* variant of Invalidates: the last key is missing from the list
InvalidatesMissingKey(key, same) ==
    key \in ConfigKeys \ {"isGUIApplication"} /\ ~same

\* variant of Invalidates: every attribute but _id is in the list
InvalidatesAnyKey(key, same) == key # "_id" /\ ~same

\* variant of Invalidates: only an identity that is an artifact's path is
\* given up
InvalidatesOnlyPaths(key, same) ==
    key \in ConfigKeys /\ ~same /\ _id \notin RegisteredIds

\* the condition of __setattr__ (solver.py:109-111); `same` tells whether
\* the assigned object is the stored object (`is`)
Invalidates(key, same) == key \in ConfigKeys /\ ~same

\* every frame that is active notes that an assignment happened in its body
MarkAssigned(s) == [i \in 1..Len(s) |-> [s[i] EXCEPT !.assigned = TRUE]]

SetAttr(t, key, value, same) ==
    /\ InCaller(t)
    /\ nassign < MaxAssign
    /\ value \in Values(key)
    /\ same => value = Stored(key)
    /\ Singleton(key, value) => (same <=> value = Stored(key))
    /\ _id' = IF key = "_id" THEN value
              ELSE IF Invalidates(key, same) THEN None
              ELSE _id
    /\ fields' = IF key = "_id" THEN fields ELSE [fields EXCEPT ![key] = value]
    /\ stack' = [u \in Threads |-> MarkAssigned(stack[u])]
    /\ nassign' = nassign + 1
    /\ last' = [Obs("setattr", t) EXCEPT !.key = key,
                    !.differs = (value # Stored(key)), !.same = same]
    /\ UNCHANGED fs

\* ------------------------------------------------------------ reading id
ReadId(t) ==
    /\ InCaller(t)
    /\ last' = [Obs("id", t) EXCEPT !.out = Id]
    /\ UNCHANGED <<fields, _id, fs, stack, nassign>>

\* a file some frame still holds in its local variable `file`
Held(p) == \E t \in Threads : \E i \in 1..Len(stack[t]) : stack[t][i].file = p

\* the files no frame holds any more
Orphans == {p \in Paths : fs[p].exists /\ ~Held(p)}

\* ------------------------------------------------------------ configuration()
\* variant of Begin: the test of _id is missing, a file is always created
BeginAlwaysCreates(t) ==
    /\ InCaller(t)
    /\ Len(stack[t]) < MaxDepth
    /\ stack' = [stack EXCEPT ![t] = Append(@,
           [pc |-> "create", file |-> None, entry |-> _id, yielded |-> None,
            assigned |-> FALSE, exc |-> FALSE])]
    /\ last' = Obs("enter", t)
    /\ UNCHANGED <<fields, _id, fs, nassign>>

\* solver.py:62-63: `file = None`, then the test `self._id is None`
Begin(t) ==
    /\ InCaller(t)
    /\ Len(stack[t]) < MaxDepth
    /\ stack' = [stack EXCEPT ![t] = Append(@,
           [pc |-> IF _id = None THEN "create" ELSE "yield",
            file |-> None, entry |-> _id, yielded |-> None,
            assigned |-> FALSE, exc |-> FALSE])]
    /\ last' = Obs("enter", t)
    /\ UNCHANGED <<fields, _id, fs, nassign>>

\* variant of CreateFile: _id is set to the file's name as soon as the file
\* is created, before anything is written
CreateFileSetsId(t, p) ==
    /\ At(t, "create")
    /\ ~fs[p].exists
    /\ fs' = [fs EXCEPT ![p] = [exists |-> TRUE, doc |-> <<>>, complete |-> FALSE]]
    /\ _id' = p
    /\ stack' = SetTop(t, [Top(t) EXCEPT !.file = p, !.pc = "write"])
    /\ last' = [Obs("create", t) EXCEPT !.file = p]
    /\ UNCHANGED <<fields, nassign>>

\* variant of CreateFile: the name is not checked against the existing files
CreateFileAnyName(t, p) ==
    /\ At(t, "create")
    /\ fs' = [fs EXCEPT ![p] = [exists |-> TRUE, doc |-> <<>>, complete |-> FALSE]]
    /\ stack' = SetTop(t, [Top(t) EXCEPT !.file = p, !.pc = "write"])
    /\ last' = [Obs("create", t) EXCEPT !.file = p]
    /\ UNCHANGED <<fields, _id, nassign>>

\* solver.py:64: NamedTemporaryFile creates a file under a name no existing
\* file has
CreateFile(t, p) ==
    /\ At(t, "create")
    /\ ~fs[p].exists
    /\ fs' = [fs EXCEPT ![p] = [exists |-> TRUE, doc |-> <<>>, complete |-> FALSE]]
    /\ stack' = SetTop(t, [Top(t) EXCEPT !.file = p, !.pc = "write"])
    /\ last' = [Obs("create", t) EXCEPT !.file = p]
    /\ UNCHANGED <<fields, _id, nassign>>

\* solver.py:64 raising: no file exists, the error leaves configuration()
CreateFails(t) ==
    /\ At(t, "create")
    /\ stack' = Pop(t)
    /\ last' = [Obs("raise", t) EXCEPT !.err = "OSError", !.key = "create"]
    /\ UNCHANGED <<fields, _id, fs, nassign>>

\* variant of WriteFile: the document is serialized as if _id were already
\* the file's name
WriteFileAfterId(t) ==
    /\ At(t, "write")
    /\ fs' = [fs EXCEPT ![Top(t).file] =
                 [exists |-> TRUE, doc |-> ToJsonOf(fields, Top(t).file),
                  complete |-> FALSE]]
    /\ stack' = SetTop(t, [Top(t) EXCEPT !.pc = "flush"])
    /\ last' = [Obs("write", t) EXCEPT !.file = Top(t).file]
    /\ UNCHANGED <<fields, _id, nassign>>

\* solver.py:65: file.write(self.to_json().encode()); the document is in the
\* file object's buffer, the file itself is not yet complete
WriteFile(t) ==
    /\ At(t, "write")
    /\ fs' = [fs EXCEPT ![Top(t).file] =
                 [exists |-> TRUE, doc |-> ToJson, complete |-> FALSE]]
    /\ stack' = SetTop(t, [Top(t) EXCEPT !.pc = "flush"])
    /\ last' = [Obs("write", t) EXCEPT !.file = Top(t).file]
    /\ UNCHANGED <<fields, _id, nassign>>

\* solver.py:65 raising: the error leaves configuration(); the file object is
\* no longer referenced and stays on disk until it is finalized
WriteFails(t) ==
    /\ At(t, "write")
    /\ Cardinality(Orphans) < MaxOrphans
    /\ fs' = [fs EXCEPT ![Top(t).file] = Partial]
    /\ stack' = Pop(t)
    /\ last' = [Obs("raise", t) EXCEPT !.err = "OSError", !.key = "write",
                    !.file = Top(t).file]
    /\ UNCHANGED <<fields, _id, nassign>>

\* variant of FlushFile: the buffer is not flushed before the scope goes on
FlushFileSkipped(t) ==
    /\ At(t, "flush")
    /\ stack' = SetTop(t, [Top(t) EXCEPT !.pc = "assign"])
    /\ last' = [Obs("flush", t) EXCEPT !.file = Top(t).file]
    /\ UNCHANGED <<fields, _id, fs, nassign>>

\* solver.py:66: file.flush()
FlushFile(t) ==
    /\ At(t, "flush")
    /\ fs' = [fs EXCEPT ![Top(t).file].complete = TRUE]
    /\ stack' = SetTop(t, [Top(t) EXCEPT !.pc = "assign"])
    /\ last' = [Obs("flush", t) EXCEPT !.file = Top(t).file]
    /\ UNCHANGED <<fields, _id, nassign>>

\* solver.py:66 raising
FlushFails(t) ==
    /\ At(t, "flush")
    /\ Cardinality(Orphans) < MaxOrphans
    /\ fs' = [fs EXCEPT ![Top(t).file] = Partial]
    /\ stack' = Pop(t)
    /\ last' = [Obs("raise", t) EXCEPT !.err = "OSError", !.key = "flush",
                    !.file = Top(t).file]
    /\ UNCHANGED <<fields, _id, nassign>>

\* solver.py:67-68: file.seek(0); self._id = file.name
AssignId(t) ==
    /\ At(t, "assign")
    /\ _id' = Top(t).file
    /\ stack' = SetTop(t, [Top(t) EXCEPT !.pc = "yield"])
    /\ last' = [Obs("assign", t) EXCEPT !.file = Top(t).file]
    /\ UNCHANGED <<fields, fs, nassign>>

\* solver.py:70: yield self._id; the caller's body starts with that value
Yield(t) ==
    /\ At(t, "yield")
    /\ stack' = SetTop(t, [Top(t) EXCEPT !.pc = "body", !.yielded = _id])
    /\ last' = [Obs("yield", t) EXCEPT !.out = _id, !.file = Top(t).file]
    /\ UNCHANGED <<fields, _id, fs, nassign>>

\* what the caller sees when the scope of frame fr has exited
ExitObs(t, fr) ==
    [Obs("exit", t) EXCEPT !.file = fr.file, !.out = fr.yielded,
         !.clean = ~fr.assigned, !.err = IF fr.exc THEN "BodyError" ELSE ""]

\* variant of BodyEnds: no try/finally, so an exception in the body leaves
\* configuration() without the cleanup
BodyEndsSkipsCleanup(t, exc) ==
    /\ At(t, "body")
    /\ IF exc
       THEN /\ stack' = Pop(t)
            /\ last' = ExitObs(t, [Top(t) EXCEPT !.exc = TRUE])
       ELSE /\ stack' = SetTop(t, [Top(t) EXCEPT !.pc = "finally", !.exc = exc])
            /\ last' = [Obs("leave", t) EXCEPT !.file = Top(t).file]
    /\ UNCHANGED <<fields, _id, fs, nassign>>

\* the body of the with statement ends, normally or by an exception, and
\* control returns to the generator at the yield (solver.py:70-71)
BodyEnds(t, exc) ==
    /\ At(t, "body")
    /\ stack' = SetTop(t, [Top(t) EXCEPT !.pc = "finally", !.exc = exc])
    /\ last' = [Obs("leave", t) EXCEPT !.file = Top(t).file,
                    !.err = IF exc THEN "BodyError" ELSE ""]
    /\ UNCHANGED <<fields, _id, fs, nassign>>

\* variant of Finally: `self._id = None` is outside the `if`, so it runs
\* without a file too
FinallyAlwaysResets(t) ==
    /\ At(t, "finally")
    /\ IF Top(t).file # None
       THEN /\ fs' = [fs EXCEPT ![Top(t).file] = NoFile]
            /\ stack' = SetTop(t, [Top(t) EXCEPT !.pc = "reset"])
            /\ last' = [Obs("close", t) EXCEPT !.file = Top(t).file]
            /\ _id' = _id
       ELSE /\ fs' = fs
            /\ stack' = Pop(t)
            /\ last' = ExitObs(t, Top(t))
            /\ _id' = None
    /\ UNCHANGED <<fields, nassign>>

\* solver.py:72-73: `if file is not None: file.close()`; closing the
\* temporary file removes it.  Without a file the scope is over here.
Finally(t) ==
    /\ At(t, "finally")
    /\ IF Top(t).file # None
       THEN /\ fs' = [fs EXCEPT ![Top(t).file] = NoFile]
            /\ stack' = SetTop(t, [Top(t) EXCEPT !.pc = "reset"])
            /\ last' = [Obs("close", t) EXCEPT !.file = Top(t).file]
       ELSE /\ fs' = fs
            /\ stack' = Pop(t)
            /\ last' = ExitObs(t, Top(t))
    /\ UNCHANGED <<fields, _id, nassign>>

\* variant of ResetId: the scope ends without `self._id = None`
ResetIdKeeps(t) ==
    /\ At(t, "reset")
    /\ stack' = Pop(t)
    /\ last' = ExitObs(t, Top(t))
    /\ UNCHANGED <<fields, _id, fs, nassign>>

\* solver.py:74: self._id = None, and the scope is over
ResetId(t) ==
    /\ At(t, "reset")
    /\ _id' = None
    /\ stack' = Pop(t)
    /\ last' = ExitObs(t, Top(t))
    /\ UNCHANGED <<fields, fs, nassign>>

\* the finalizer of a temporary file object nobody references any more
\* closes it, which removes the file (solver.py:64, delete on close)
Finalize(p) ==
    /\ fs[p].exists
    /\ ~Held(p)
    /\ fs' = [fs EXCEPT ![p] = NoFile]
    /\ last' = [Obs("finalize", "main") EXCEPT !.file = p]
    /\ UNCHANGED <<fields, _id, stack, nassign>>

\* ------------------------------------------------------------ solve
Instances == {"instance"}

\* extra positional and named arguments of a solve call
ExtraArgs == {<<>>, <<"all_solutions">>}
ExtraKwargs == {<<"timeout">>}

\* what the driver's solve does with a call: return a result or raise
DriverReturns == {"result"}
DriverRaises == {"MiniZincError"}

\* the arguments the caller passes to solve
Given(instance, args, kwargs) ==
    [instance |-> instance, args |-> args, kwargs |-> kwargs]

\* variant of DriverCall: the named arguments are not passed on
DriverCallDropsKwargs(instance, args, kwargs, outcome) ==
    [driver |-> fields["driver"], solver |-> "self", instance |-> instance,
     args |-> args, kwargs |-> <<>>, outcome |-> outcome]

\* the call self.driver.solve(self, instance, *args, **kwargs) (solver.py:84)
\* as the driver receives it, with what the driver does in response
DriverCall(instance, args, kwargs, outcome) ==
    [driver |-> fields["driver"], solver |-> "self", instance |-> instance,
     args |-> args, kwargs |-> kwargs, outcome |-> outcome]

\* variant of Solve: the driver is not tested, so a call without a driver
\* fails on the attribute lookup of None
SolveWithoutTest(t, instance, args, kwargs, outcome) ==
    /\ InCaller(t)
    /\ IF fields["driver"] # NoDriver
       THEN last' = [Obs("solve", t) EXCEPT
                        !.given = Given(instance, args, kwargs),
                        !.calls = <<DriverCall(instance, args, kwargs, outcome)>>,
                        !.res = IF outcome \in DriverReturns THEN outcome ELSE "",
                        !.err = IF outcome \in DriverRaises THEN outcome ELSE ""]
       ELSE last' = [Obs("solve", t) EXCEPT
                        !.given = Given(instance, args, kwargs),
                        !.err = "AttributeError"]
    /\ UNCHANGED <<fields, _id, fs, stack, nassign>>

\* solver.py:83-86; outcome is what the driver does when it is called
Solve(t, instance, args, kwargs, outcome) ==
    /\ InCaller(t)
    /\ IF fields["driver"] # NoDriver
       THEN last' = [Obs("solve", t) EXCEPT
                        !.given = Given(instance, args, kwargs),
                        !.calls = <<DriverCall(instance, args, kwargs, outcome)>>,
                        !.res = IF outcome \in DriverReturns THEN outcome ELSE "",
                        !.err = IF outcome \in DriverRaises THEN outcome ELSE ""]
       ELSE last' = [Obs("solve", t) EXCEPT
                        !.given = Given(instance, args, kwargs),
                        !.err = "LookupError"]
    /\ UNCHANGED <<fields, _id, fs, stack, nassign>>

\* ------------------------------------------------------------ to_json called
\* a call of to_json() by caller code (solver.py:88-106)
ToJsonCall(t) ==
    /\ InCaller(t)
    /\ last' = [Obs("to_json", t) EXCEPT !.doc = ToJson]
    /\ UNCHANGED <<fields, _id, fs, stack, nassign>>

\* ------------------------------------------------------------ behaviours
Step(t) ==
    \/ \E key \in AllKeys : \E value \in Values(key), same \in BOOLEAN :
         SetAttr(t, key, value, same)
    \/ ReadId(t)
    \/ Begin(t)
    \/ \E p \in Paths : CreateFile(t, p)
    \/ CreateFails(t)
    \/ WriteFile(t)
    \/ WriteFails(t)
    \/ FlushFile(t)
    \/ FlushFails(t)
    \/ AssignId(t)
    \/ Yield(t)
    \/ \E exc \in BOOLEAN : BodyEnds(t, exc)
    \/ Finally(t)
    \/ ResetId(t)
    \/ \E instance \in Instances, args \in ExtraArgs, kwargs \in ExtraKwargs :
         \E outcome \in DriverReturns \cup DriverRaises :
           Solve(t, instance, args, kwargs, outcome)
    \/ ToJsonCall(t)

\* the object is used by one thread (spec section 5: no internal concurrency)
Next ==
    \/ Step("main")
    \/ \E p \in Paths : Finalize(p)

Spec == Init /\ [][Next]_vars

\* ------------------------------------------------------------ registered
\* the object after construction, or after construction and the assignment
\* of a registered id to _id by the code that looked the solver up
InitRegistered ==
    /\ \E d \in Drivers :
         fields = Built(<<"F", "o", "o">>, Search(<<"1", ".", "2", ".", "3">>),
                        "/bin/foo", d)
    /\ _id \in {None} \cup RegisteredIds
    /\ fs = [p \in Paths |-> NoFile]
    /\ stack = [t \in Threads |-> <<>>]
    /\ nassign = 0
    /\ last = Fresh

SpecRegistered == InitRegistered /\ [][Next]_vars

\* ------------------------------------------------------------ two threads
\* the steps of configuration() (solver.py:60-74) taken by thread t
ScopeStep(t) ==
    \/ Begin(t)
    \/ \E p \in Paths : CreateFile(t, p)
    \/ WriteFile(t)
    \/ FlushFile(t)
    \/ AssignId(t)
    \/ Yield(t)
    \/ \E exc \in BOOLEAN : BodyEnds(t, exc)
    \/ Finally(t)
    \/ ResetId(t)

\* two threads use the same object; their steps interleave in any order
NextConc == \E t \in Threads : ScopeStep(t)

SpecConc == Init /\ [][NextConc]_vars

\* ------------------------------------------------------------ construction
\* the version strings given to the constructor
VersionChars == {"1", "0", ".", "v"}
VersionStrings == UNION {[1..n -> VersionChars] : n \in 0..MaxVersionLen}

\* no object: every attribute is missing
Unbuilt == [k \in FieldKeys |-> None]

\* before the call Solver("Foo", version, "/bin/foo", driver)
CtorInit ==
    /\ fields = Unbuilt
    /\ _id = None
    /\ fs = [p \in Paths |-> NoFile]
    /\ stack = [t \in Threads |-> <<>>]
    /\ nassign = 0
    /\ \E s \in VersionStrings : last = [Fresh EXCEPT !.op = "new", !.text = s]

\* __init__ (solver.py:29-51): without a match, match.groups() raises
\* AttributeError on None and the caller gets no object
Construct(d) ==
    /\ last.op = "new"
    /\ IF Search(last.text) = NoMatch
       THEN /\ fields' = Unbuilt
            /\ last' = [last EXCEPT !.op = "construct", !.err = "AttributeError"]
       ELSE /\ fields' = Built(<<"F", "o", "o">>, Search(last.text), "/bin/foo", d)
            /\ last' = [last EXCEPT !.op = "construct", !.res = "Solver"]
    /\ _id' = None
    /\ UNCHANGED <<fs, stack, nassign>>

NextCtor == \E d \in Drivers : Construct(d)

SpecCtor == CtorInit /\ [][NextCtor]_vars

\* ------------------------------------------------------------ properties
\* the derived identity of the name as the class documents it
Derived == <<"org.minizinc.python.">> \o Lower(fields["name"])

\* the frames of the calling thread
Frames == stack["main"]

\* program points of configuration() from the yield to the `finally`
Yielded == {"body", "finally"}

\* C1: when a scope that created an artifact has exited, after a normal end
\* of its body or after an exception in it, the artifact no longer exists,
\* _id is None and the effective id is the derived form again.
C1_TeardownOnExit ==
    (last.op = "exit" /\ last.file # None) =>
        /\ ~fs[last.file].exists
        /\ _id = None
        /\ Id = Derived

\* a scope that created an artifact has exited after an exception in its body
C1_Witness ==
    /\ last.op = "exit"
    /\ last.file \in Paths
    /\ last.err = "BodyError"
    /\ last.out = last.file

\* C2: an assignment of a different value to one of the twelve
\* configuration-affecting fields, made while an identity is set, leaves _id
\* unset, so that the effective id is the derived form.
C2_ChangeInvalidates ==
    (/\ last.op = "setattr"
     /\ last.key \in {"version", "executable", "mznlib", "tags", "stdFlags",
                      "extraFlags", "supportsMzn", "supportsFzn",
                      "needsSolns2Out", "needsMznExecutable", "needsStdlibDir",
                      "isGUIApplication"}
     /\ last.differs
     /\ last.prev # None) =>
        /\ _id = None
        /\ Id = Derived

\* the last of the twelve fields was given another value while the identity
\* was the path of a materialized artifact
C2_Witness ==
    /\ last.op = "setattr"
    /\ last.key = "isGUIApplication"
    /\ last.differs
    /\ last.prev \in Paths
    /\ _id = None

\* C3: whenever the identity is the path of an existing artifact, the
\* artifact's document agrees with the current value of every serialized
\* field other than id, name included.
C3_NeverStale ==
    (_id \in Paths /\ fs[_id].exists) =>
        \A k \in ConfigKeys \cup {"name"} :
            DocGet(fs[_id].doc, k) = Info(fields, _id)[k]

C5_ExplicitIdentityKept ==
    /\ [](\A i \in 1..Len(Frames) :
            Frames[i].entry # None =>
               /\ Frames[i].file = None
               /\ Frames[i].pc \in Yielded => Frames[i].yielded = Frames[i].entry)
    /\ []((last.op = "exit" /\ last.file = None /\ last.clean) =>
            (_id = last.out /\ _id # None))
    /\ [][(last'.op = "exit" /\ last'.file = None /\ last' # last) =>
            (fs' = fs /\ _id' = _id)]_vars

\* an acquisition entered with a registered identity has exited after an
\* exception in its body, with no assignment in the body
C5_Witness ==
    /\ last.op = "exit"
    /\ last.file = None
    /\ last.clean
    /\ last.err = "BodyError"
    /\ last.out \in RegisteredIds

\* C6: reading id returns the explicit identity when one is set and
\* "org.minizinc.python." + lowercase(name) when it is not; a freshly
\* constructed configuration has the derived form; reading changes nothing.
C6_EffectiveId ==
    /\ [](last.op = "id" =>
            last.out = IF _id = None
                       THEN <<"org.minizinc.python.">> \o Lower(fields["name"])
                       ELSE _id)
    /\ []((last.op = "id" /\ _id = None /\ fields["name"] = <<"F", "o", "o">>) =>
            last.out = <<"org.minizinc.python.", "f", "o", "o">>)
    /\ [](last.op = "init" => Id = <<"org.minizinc.python.", "f", "o", "o">>)
    /\ [][last'.op = "id" => UNCHANGED <<fields, _id, fs, stack, nassign>>]_vars

\* id was read while no identity was set and the name has an upper-case letter
C6_Witness ==
    /\ last.op = "id"
    /\ _id = None
    /\ fields["name"] = <<"F", "o", "o">>
    /\ last.out = <<"org.minizinc.python.", "f", "o", "o">>

\* C7: solve on a configuration without a driver raises LookupError, calls no
\* driver, creates no artifact and changes neither the identity nor a field.
C7_NoDriver ==
    /\ []((last.op = "solve" /\ fields["driver"] = NoDriver) =>
            /\ last.err = "LookupError"
            /\ last.calls = <<>>
            /\ last.res = ""
            /\ _id = last.prev)
    /\ [][(last'.op = "solve" /\ fields["driver"] = NoDriver) =>
            UNCHANGED <<fields, _id, fs, stack, nassign>>]_vars

\* solve was called without a driver inside an active acquisition
C7_Witness ==
    /\ last.op = "solve"
    /\ fields["driver"] = NoDriver
    /\ last.err = "LookupError"
    /\ _id \in Paths

\* C8: with a driver bound, solve calls the driver exactly once, with the
\* configuration itself, the instance and the extra arguments as given,
\* returns what the driver returns and raises what the driver raises, and
\* changes neither the identity nor the files.
C8_Forwarding ==
    /\ []((last.op = "solve" /\ fields["driver"] # NoDriver) =>
            /\ Len(last.calls) = 1
            /\ last.calls[1].driver = fields["driver"]
            /\ last.calls[1].solver = "self"
            /\ last.calls[1].instance = last.given.instance
            /\ last.calls[1].args = last.given.args
            /\ last.calls[1].kwargs = last.given.kwargs
            /\ last.calls[1].outcome \in DriverReturns =>
                 (last.res = last.calls[1].outcome /\ last.err = "")
            /\ last.calls[1].outcome \in DriverRaises =>
                 (last.err = last.calls[1].outcome /\ last.res = "")
            /\ _id = last.prev)
    /\ [][(last'.op = "solve" /\ fields["driver"] # NoDriver) =>
            UNCHANGED <<fields, _id, fs, stack, nassign>>]_vars

\* the driver raised on a call with extra arguments and solve passed it on
C8_Witness ==
    /\ last.op = "solve"
    /\ fields["driver"] # NoDriver
    /\ last.given.args # <<>>
    /\ last.given.kwargs # <<>>
    /\ last.err = "MiniZincError"

\* C9: a failure to create, write or flush the artifact leaves configuration()
\* from a point before the yield, with _id None; and _id never names an
\* existing artifact whose document is not completely written.
C9_FailedWrite ==
    /\ [](last.op = "raise" => (_id = None /\ last.err = "OSError"))
    /\ []((_id \in Paths /\ fs[_id].exists) =>
            (fs[_id].complete /\ fs[_id].doc # <<>>))
    /\ [][(last'.op = "raise" /\ last' # last) =>
            /\ stack["main"] # <<>>
            /\ Top("main").pc \in {"create", "write", "flush"}
            /\ stack' = Pop("main")]_vars

\* the flush failed: the partly written file still exists, _id is None
C9_Witness ==
    /\ last.op = "raise"
    /\ last.key = "flush"
    /\ last.file \in Paths
    /\ fs[last.file].exists
    /\ ~fs[last.file].complete
    /\ _id = None

\* C10: an assignment to name or to driver leaves _id as it was.
C10_NameDriverKeepId ==
    (last.op = "setattr" /\ last.key \in {"name", "driver"}) => _id = last.prev

\* another name was assigned inside an active acquisition whose artifact is
\* the identity
C10_Witness ==
    /\ last.op = "setattr"
    /\ last.key = "name"
    /\ last.differs
    /\ last.prev \in Paths
    /\ Frames # <<>>
    /\ _id = last.prev

\* C11: an assignment to a configuration-affecting field of a value equal to
\* the stored one leaves a set identity in place.
C11_EqualValueKeepsId ==
    (/\ last.op = "setattr"
     /\ last.key \in ConfigKeys
     /\ ~last.differs
     /\ last.prev # None) => _id = last.prev

\* C12: to_json() is deterministic and read-only: a call that follows
\* another call directly returns the same document, the "id" entry of the
\* document is the effective id at the time of the call, every other entry
\* is the field's value (the version joined with dots), and the call changes
\* neither _id nor a field.
C12_ToJsonReadOnly ==
    /\ [](last.op = "to_json" =>
            /\ Len(last.doc) = 14
            /\ DocGet(last.doc, "id") =
                 (IF _id = None
                  THEN <<"org.minizinc.python.">> \o Lower(fields["name"])
                  ELSE _id)
            /\ \A k \in (ConfigKeys \ {"version"}) \cup {"name"} :
                 DocGet(last.doc, k) = fields[k]
            /\ fields["version"] = <<1, 2, 3>> =>
                 DocGet(last.doc, "version") = <<"1", ".", "2", ".", "3">>)
    /\ [][(last.op = "to_json" /\ last'.op = "to_json") =>
            last'.doc = last.doc]_vars
    /\ [][last'.op = "to_json" =>
            UNCHANGED <<fields, _id, fs, stack, nassign>>]_vars

\* to_json() was called in the body of an acquisition: the "id" entry is the
\* artifact's path
C12_Witness ==
    /\ last.op = "to_json"
    /\ _id \in Paths
    /\ DocGet(last.doc, "id") = _id
    /\ DocGet(last.doc, "version") = <<"1", ".", "2", ".", "3">>

\* C13 as stated: at every point from the yield to the exit of the scope
\* that created an artifact, the identity equals that artifact's path.
C13_AuthoritativeInScope ==
    \A i \in 1..Len(Frames) :
        (Frames[i].file # None /\ Frames[i].pc \in Yielded) =>
            _id = Frames[i].file

\* C13, amended: from the yield to the exit of the scope that created an
\* artifact, the identity equals that artifact's path as long as no
\* assignment was made in the scope's body, and the identity never names an
\* artifact whose creating scope is over.
C13_AuthoritativeUntilAssigned ==
    /\ \A i \in 1..Len(Frames) :
          (Frames[i].file # None /\ Frames[i].pc \in Yielded) =>
              (_id = Frames[i].file \/ Frames[i].assigned)
    /\ _id \in Paths => Held(_id)

\* the body of a scope that created an artifact has ended without an
\* assignment and the identity is still the artifact's path
C13_Witness ==
    /\ Frames # <<>>
    /\ Frames[1].pc = "finally"
    /\ Frames[1].file # None
    /\ ~Frames[1].assigned
    /\ _id = Frames[1].file

\* C14: in every state after construction, whatever fields were assigned,
\* version is a triple of exactly three non-negative integers.
C14_VersionTriple ==
    /\ Len(fields["version"]) = 3
    /\ \A i \in 1..Len(fields["version"]) : fields["version"][i] \in Nat

\* the digits of s from position lo to position hi, read as a decimal number
RECURSIVE Decimal(_, _, _)
Decimal(s, lo, hi) ==
    IF lo > hi THEN 0
    ELSE DigitVal(s[lo]) * 10 ^ (hi - lo) + Decimal(s, lo + 1, hi)

\* <<i, a, b, c>>: at position i of s stand a digits, a dot, b digits, a dot
\* and c digits
Occurrences(s) ==
    LET n == Len(s)
        m == n - 4
    IN  {q \in (1..n) \X (1..m) \X (1..m) \X (1..m) :
           /\ q[1] + q[2] + q[3] + q[4] + 1 <= n
           /\ \A j \in q[1]..(q[1] + q[2] - 1) : s[j] \in Digits
           /\ s[q[1] + q[2]] = "."
           /\ \A j \in (q[1] + q[2] + 1)..(q[1] + q[2] + q[3]) : s[j] \in Digits
           /\ s[q[1] + q[2] + q[3] + 1] = "."
           /\ \A j \in (q[1] + q[2] + q[3] + 2)..(q[1] + q[2] + q[3] + q[4] + 1) :
                s[j] \in Digits}

\* C15: a constructor call whose version string contains digits.digits.digits
\* sets version to the three numbers of the leftmost (and there longest)
\* occurrence; a call whose version string contains no occurrence raises
\* and gives the caller no object.
C15_ParsesFirstOccurrence ==
    last.op = "construct" =>
        LET s == last.text
            occ == Occurrences(s)
        IN  IF occ = {}
            THEN /\ last.err = "AttributeError"
                 /\ last.res = ""
                 /\ fields["version"] = None
                 /\ fields["name"] = None
            ELSE /\ last.err = ""
                 /\ last.res = "Solver"
                 /\ fields["name"] = <<"F", "o", "o">>
                 /\ \E q \in occ :
                      /\ \A r \in occ :
                           \/ q[1] < r[1]
                           \/ q[1] = r[1] /\ r[4] <= q[4]
                      /\ fields["version"] =
                           << Decimal(s, q[1], q[1] + q[2] - 1),
                              Decimal(s, q[1] + q[2] + 1, q[1] + q[2] + q[3]),
                              Decimal(s, q[1] + q[2] + q[3] + 2,
                                      q[1] + q[2] + q[3] + q[4] + 1) >>

\* the constructor was given "v10.0.1": the occurrence starts at the second
\* character and its first number has two digits
C15_Witness ==
    /\ last.op = "construct"
    /\ last.text = <<"v", "1", "0", ".", "0", ".", "1">>
    /\ last.err = ""
    /\ fields["version"] = <<10, 0, 1>>

\* where a scope that created file p stands, against the state of p and of
\* the identity
C16_Stage(fr) ==
    LET f == fs[fr.file]
    IN  CASE fr.pc = "write"  ->
               f.exists /\ f.doc = <<>> /\ ~f.complete /\ _id = None
                 /\ fr.yielded = None
          [] fr.pc = "flush"  ->
               f.exists /\ Len(f.doc) = 14 /\ ~f.complete /\ _id = None
                 /\ fr.yielded = None
          [] fr.pc = "assign" ->
               f.exists /\ Len(f.doc) = 14 /\ f.complete /\ _id = None
                 /\ fr.yielded = None
          [] fr.pc = "yield"  ->
               f.exists /\ Len(f.doc) = 14 /\ f.complete /\ _id = fr.file
                 /\ fr.yielded = None
          [] fr.pc \in {"body", "finally"} ->
               f.exists /\ Len(f.doc) = 14 /\ f.complete
                 /\ fr.yielded = fr.file
          [] fr.pc = "reset"  -> ~f.exists /\ fr.yielded = fr.file
          [] OTHER -> FALSE

\* C16: in a scope that creates an artifact the steps come in the order
\* create, write, flush, set identity, yield, body, remove, reset: at each
\* program point the artifact and the identity are in the state the
\* earlier steps left; a path a body was yielded names a fully written
\* artifact; a fully written artifact is removed only by the exit code of
\* the scope that holds it, after its body; and the exit resets the
\* identity only after the removal.
C16_Order ==
    /\ [](\A i \in 1..Len(Frames) :
            /\ Frames[i].file # None => C16_Stage(Frames[i])
            /\ Frames[i].file = None /\ Frames[i].pc # "create" =>
                 Frames[i].entry # None
            /\ (Frames[i].pc = "body" /\ Frames[i].yielded \in Paths) =>
                 /\ fs[Frames[i].yielded].exists
                 /\ fs[Frames[i].yielded].complete
                 /\ Len(fs[Frames[i].yielded].doc) = 14)
    /\ [][\A p \in Paths :
            (fs[p].complete /\ ~fs'[p].exists) =>
                /\ At("main", "finally")
                /\ Top("main").file = p
                /\ last'.op = "close"]_vars
    /\ [][last'.op = "exit" /\ last'.file # None =>
            /\ At("main", "reset")
            /\ ~fs[last'.file].exists
            /\ _id' = None]_vars

\* the body of a scope that created an artifact ended by an exception, the
\* artifact is removed and the identity is not yet reset
C16_Witness ==
    /\ Frames # <<>>
    /\ Frames[1].pc = "reset"
    /\ Frames[1].exc
    /\ Frames[1].file \in Paths
    /\ ~fs[Frames[1].file].exists
    /\ _id = Frames[1].file

\* a scope is active with a yielded identity that is unset or names an
\* artifact that no longer exists
C17_Raced(fr) ==
    /\ fr.pc \in Yielded
    /\ \/ fr.yielded = None
       \/ fr.yielded \in Paths /\ ~fs[fr.yielded].exists

\* C17: two acquisitions running concurrently on one object race on the
\* identity: a scope can be active with a yielded identity whose artifact
\* the other scope has removed, or with an unset one (the witness).  What
\* every interleaving keeps is only this: the artifact a scope created
\* exists until that scope removes it, so a scope that was yielded the path
\* of its own artifact is never in such a state.
C17_RaceOnForeignIdentity ==
    \A t \in Threads : \A i \in 1..Len(stack[t]) :
        LET fr == stack[t][i]
        IN  /\ (fr.file # None /\ fr.pc # "reset") => fs[fr.file].exists
            /\ (fr.file # None /\ fr.yielded = fr.file) => ~C17_Raced(fr)

\* thread main is in the body of a scope that was yielded the path of the
\* other thread's artifact; the other thread's scope is over, the artifact
\* removed and the identity unset
C17_Witness ==
    /\ stack["other"] = <<>>
    /\ Frames # <<>>
    /\ Frames[1].pc = "body"
    /\ Frames[1].file = None
    /\ Frames[1].yielded \in Paths
    /\ ~fs[Frames[1].yielded].exists
    /\ _id = None

\* thread main is in the body of a scope that was yielded an unset identity
C17_WitnessUnset ==
    /\ Frames # <<>>
    /\ Frames[1].pc = "body"
    /\ Frames[1].file = None
    /\ Frames[1].yielded = None

\* C18: an artifact exists only while the scope that created it is active,
\* and nothing but the exit of that scope removes it.
C18_OwnedByScope ==
    /\ [](\A p \in Paths : fs[p].exists => Held(p))
    /\ [][\A p \in Paths :
            (fs[p].exists /\ ~fs'[p].exists) =>
                /\ At("main", "finally")
                /\ Top("main").file = p]_vars

\* the "id" entry of a written artifact is the derived identity of the name
\* in the artifact, and no path
C19_ArtifactId ==
    \A p \in Paths :
        (fs[p].exists /\ fs[p].doc # <<>>) =>
            /\ DocGet(fs[p].doc, "id") =
                 <<"org.minizinc.python.">> \o Lower(DocGet(fs[p].doc, "name"))
            /\ DocGet(fs[p].doc, "id") \notin Paths

C20_ClearsEverySetIdentity ==
    /\ []((last.op = "setattr" /\ last.key \in ConfigKeys /\ last.differs) =>
            _id = None)
    /\ [](\A i \in 1..Len(Frames) :
            (Frames[i].file # None
               /\ Frames[i].pc \in {"yield", "body", "finally"}) =>
                (fs[Frames[i].file].exists /\ fs[Frames[i].file].complete))
    /\ [][last'.op = "setattr" => fs' = fs]_vars

\* inside an active scope a registered id was the identity and a field was
\* assigned another value: the identity is unset
C20_Witness ==
    /\ last.op = "setattr"
    /\ last.key = "mznlib"
    /\ last.differs
    /\ last.prev \in RegisteredIds
    /\ Frames # <<>>
    /\ _id = None

====
